---- MODULE Spec2Model ----
(***************************************************************************)
(* Model of the image upscaler web application (app.py, utils.py).         *)
(*                                                                         *)
(* One Streamlit session is modelled.  Every user interaction re-runs      *)
(* main() from the top; a run that does not click "Procesar Imagen" is one *)
(* action, a run that clicks it is followed step by step through           *)
(* process_image (pc).  The environment variables, the st.cache_resource   *)
(* cache of load_model and the file temp_image.png live in the server      *)
(* process and outlast the runs.                                           *)
(***************************************************************************)
EXTENDS Integers, Sequences, FiniteSets, TLC

VARIABLES
    env,                \* os.environ: APP_ACCESS_TOKEN, REPLICATE_API_TOKEN
    model_cache,        \* st.cache_resource entry of load_model()
    temp_file,          \* TRUE iff temp_image.png exists on disk
    access_token,       \* st.session_state.access_token
    history,            \* st.session_state.processed_images_history
    uploaded_file,      \* the file held by st.file_uploader, or None
    pc,                 \* position of the running script
    image,              \* process_image: local `image`
    scale_factor,       \* process_image: argument scale_factor
    advanced_params,    \* process_image: argument advanced_params
    client,             \* process_image: local `client`
    output,             \* process_image: local `output`
    image_url,          \* process_image: local `image_url`
    result_image,       \* process_image: local `result_image`
    processed_image,    \* main: value returned by process_image
    messages,           \* st.error / st.success messages of this run
    remote_calls,       \* client.run calls issued in this run
    downloads,          \* urlopen calls issued in this run
    stages,             \* pipeline stages executed in this run, in order
    failed,             \* stages that raised in this run, in order
    escaped,            \* TRUE iff an exception left process_image
    rz,                 \* resize_if_needed harness: input and result
    ft                  \* apply_fine_tuning harness: input and result

vars == <<env, model_cache, temp_file, access_token, history, uploaded_file,
          pc, image, scale_factor, advanced_params, client, output,
          image_url, result_image, processed_image, messages, remote_calls,
          downloads, stages, failed, escaped, rz, ft>>

session == <<access_token, history, uploaded_file>>
process == <<env, model_cache, temp_file>>
locals  == <<image, scale_factor, advanced_params, client, output, image_url,
             result_image, processed_image, messages, remote_calls,
             downloads, stages, failed, escaped>>
harness == <<rz, ft>>

\* Python's None, and a present value, as sequences of at most one element;
\* the outcome of a call that may raise is written the same way
None      == << >>
Some(x)   == <<x>>
Val(o)    == o[1]
NoMessage == ""

(***************************************************************************)
(* Bounds of the model.                                                    *)
(***************************************************************************)
MaxHistory == 2         \* history entries followed
MaxSide    == 12        \* sides of the images given to the resize harness
MaxProbePixels == 100000000   \* pixel count of the images given to the budget runs

(***************************************************************************)
(* Strings are sequences of characters, so that startswith is computed.    *)
(***************************************************************************)
Unset     == << >>
R8Token   == <<"r", "8", "_", "k">>
BadToken  == <<"s", "k", "_", "k">>
SecretA   == <<"a">>
SecretB   == <<"b">>

\* str.startswith
StartsWith(s, prefix) ==
    /\ Len(s) >= Len(prefix)
    /\ SubSeq(s, 1, Len(prefix)) = prefix

ApiPrefix == <<"r", "8", "_">>

ApiTokens   == {Unset, BadToken, R8Token}
AppSecrets  == {Unset, SecretA}
TokenInputs == {Unset, SecretA, SecretB}

(***************************************************************************)
(* Natural numbers beyond the checker's machine integers: little-endian    *)
(* digit sequences.  Python integers do not overflow, and width * M in     *)
(* resize_if_needed exceeds 2^31 for ordinary photographs.                 *)
(***************************************************************************)
Base   == 1000
Limbs  == 7

RECURSIVE Digits(_, _)
Digits(n, len) ==
    IF len = 0 THEN << >> ELSE <<n % Base>> \o Digits(n \div Base, len - 1)

RECURSIVE MulCarry(_, _, _, _)
MulCarry(x, m, i, carry) ==
    IF i > Len(x) THEN << >>
    ELSE LET t == x[i] * m + carry
         IN  <<t % Base>> \o MulCarry(x, m, i + 1, t \div Base)

\* x * m, for a digit sequence x and m <= 2000000
MulSmall(x, m) == MulCarry(x, m, 1, 0)

RECURSIVE LeqFrom(_, _, _)
LeqFrom(x, y, i) ==
    IF i = 0 THEN TRUE
    ELSE IF x[i] < y[i] THEN TRUE
    ELSE IF x[i] > y[i] THEN FALSE
    ELSE LeqFrom(x, y, i - 1)

\* a * b * c <= d * e
Leq3(a, b, c, d, e) ==
    LeqFrom(MulSmall(MulSmall(Digits(a, Limbs), b), c),
            MulSmall(Digits(d, Limbs), e), Limbs)

\* a * b * c >= d * e
Geq3(a, b, c, d, e) ==
    LeqFrom(MulSmall(Digits(d, Limbs), e),
            MulSmall(MulSmall(Digits(a, Limbs), b), c), Limbs)

\* a * b * c = d * e
Eq3(a, b, c, d, e) ==
    MulSmall(MulSmall(Digits(a, Limbs), b), c) = MulSmall(Digits(d, Limbs), e)

(***************************************************************************)
(* resize_if_needed (utils.py 21-33).                                      *)
(*                                                                         *)
(* With n = width * height > max_pixels the code computes                  *)
(*     ratio = (max_pixels / n) ** 0.5 ;  new = int(dim * ratio)           *)
(* in double precision.  The real value of dim * ratio is                  *)
(* sqrt(max_pixels * dim / other), so int() yields the largest k with      *)
(* k * k * other <= dim * max_pixels.  When the real value is an integer k *)
(* the three rounded operations land on k or just below it, and int()      *)
(* then yields k or k - 1 (646 x 2584 gives 499 x 1999, 4000 x 1000 gives  *)
(* 2000 x 500): fp_down is that rounding outcome.                          *)
(***************************************************************************)
RECURSIVE FloorSearch(_, _, _, _, _)
FloorSearch(lo, hi, dim, other, max_pixels) ==
    IF lo = hi THEN lo
    ELSE LET mid == (lo + hi + 1) \div 2
         IN  IF Leq3(mid, mid, other, dim, max_pixels)
             THEN FloorSearch(mid, hi, dim, other, max_pixels)
             ELSE FloorSearch(lo, mid - 1, dim, other, max_pixels)

\* floor(dim * sqrt(max_pixels / (dim * other))), the ratio being below 1
ScaledFloor(dim, other, max_pixels) == FloorSearch(0, dim, dim, other, max_pixels)

\* dim * ratio is an integer in the reals
ScaledExact(dim, other, max_pixels) ==
    LET k == ScaledFloor(dim, other, max_pixels)
    IN  Eq3(k, k, other, dim, max_pixels)

\* the ratio taken without the square root: int(dim * max_pixels / num_pixels)
scaled_dim_linear(dim, other, max_pixels, fp_down) == max_pixels \div other

\* int(dim * ratio), lines 30-31
scaled_dim(dim, other, max_pixels, fp_down) ==
    LET k == ScaledFloor(dim, other, max_pixels)
    IN  IF fp_down /\ k > 0 /\ ScaledExact(dim, other, max_pixels)
        THEN k - 1 ELSE k

\* a call that raised returned nothing
Raise == << >>

\* Image.resize refuses a size with a side below 1 (ValueError)
pil_resize(img, new_width, new_height) ==
    IF new_width < 1 \/ new_height < 1 THEN Raise
    ELSE <<[img EXCEPT !.width = new_width, !.height = new_height]>>

resize_if_needed(img, max_pixels, fp_w, fp_h) ==
    LET width      == img.width
        height     == img.height
        num_pixels == width * height
    IN  IF num_pixels > max_pixels
        THEN pil_resize(img,
                        scaled_dim(width, height, max_pixels, fp_w),
                        scaled_dim(height, width, max_pixels, fp_h))
        ELSE <<img>>

(***************************************************************************)
(* apply_fine_tuning (utils.py 64-91).  Factors are in tenths (the sliders *)
(* step by 0.1).  An image carries the list of edits applied to it.  The   *)
(* local name `image` is rebound by every step, and the except clause      *)
(* returns whatever it is bound to when the exception arrives.             *)
(***************************************************************************)
Neutral == 10

TuneSteps == <<"convert", "sharpness", "contrast", "brightness", "color_balance">>

\* the conditions of lines 69, 72, 76, 80, 84
StepApplies(step, img, params) ==
    IF step = "convert" THEN img.mode # "RGB" ELSE params[step] # Neutral

\* lines 70, 73-74, 77-78, 81-82, 85-86
StepResult(step, img, params) ==
    IF step = "convert"
    THEN [img EXCEPT !.mode = "RGB", !.edits = Append(@, <<"convert", 0>>)]
    ELSE [img EXCEPT !.edits = Append(@, <<step, params[step]>>)]

\* what the except clause of lines 89-91 returns: the current binding of `image`
TuneExcept(original, current) == current

RECURSIVE TuneFrom(_, _, _, _, _)
TuneFrom(original, current, params, i, fail_at) ==
    IF i > Len(TuneSteps) THEN [image |-> current, error |-> FALSE]
    ELSE LET step == TuneSteps[i]
         IN  IF ~StepApplies(step, current, params)
             THEN TuneFrom(original, current, params, i + 1, fail_at)
             ELSE IF fail_at = step
             THEN [image |-> TuneExcept(original, current), error |-> TRUE]
             ELSE TuneFrom(original, StepResult(step, current, params),
                           params, i + 1, fail_at)

NoFailure == "none"

\* fail_at: the step whose PIL call raises, or NoFailure
apply_fine_tuning(img, params, fail_at) == TuneFrom(img, img, params, 1, fail_at)

(***************************************************************************)
(* load_model (utils.py 35-62), under @st.cache_resource: the first call's *)
(* return value is stored, None included, and later calls return the       *)
(* stored value without running the body.                                  *)
(***************************************************************************)
Uncached == None

\* the body, lines 40-62; client_ok: replicate.Client(...) did not raise
load_model_body(environ, client_ok) ==
    LET token == environ.REPLICATE_API_TOKEN
    IN  IF token = Unset THEN [value |-> None, message |-> "token_missing"]
        ELSE IF ~StartsWith(token, ApiPrefix)
        THEN [value |-> None, message |-> "token_format"]
        ELSE IF client_ok
        THEN [value |-> Some([api_token |-> token]), message |-> NoMessage]
        ELSE [value |-> None, message |-> "client_error"]

\* the decorator of line 35: a stored entry is returned without running the body
CacheLookup(cache, environ, client_ok) ==
    IF cache # Uncached THEN Val(cache) ELSE load_model_body(environ, client_ok)

load_model(cache, environ, client_ok) == CacheLookup(cache, environ, client_ok)

(***************************************************************************)
(* check_token (app.py 8-28).  clicked: "Verificar acceso" was pressed in  *)
(* this run; token_input: the content of the password field.              *)
(***************************************************************************)
TokenMatches(token_input, correct_token) == token_input = correct_token

\* a gate that tests that a token is present, not that it is the secret
check_token_presence(session_token, environ, clicked, token_input) ==
    IF environ.APP_ACCESS_TOKEN = Unset
    THEN [ok |-> FALSE, access_token |-> session_token]
    ELSE IF session_token = Unset
    THEN IF clicked /\ token_input # Unset
         THEN [ok |-> TRUE, access_token |-> token_input]
         ELSE [ok |-> FALSE, access_token |-> session_token]
    ELSE [ok |-> TRUE, access_token |-> session_token]

check_token(session_token, environ, clicked, token_input) ==
    LET correct_token == environ.APP_ACCESS_TOKEN
    IN  IF correct_token = Unset
        THEN [ok |-> FALSE, access_token |-> session_token]
        ELSE IF session_token = Unset
        THEN IF clicked /\ TokenMatches(token_input, correct_token)
             THEN [ok |-> TRUE, access_token |-> token_input]
             ELSE [ok |-> FALSE, access_token |-> session_token]
        ELSE [ok |-> session_token = correct_token, access_token |-> session_token]

(***************************************************************************)
(* Inputs of the session.                                                  *)
(***************************************************************************)
PixelCeiling == 1000000     \* utils.py 113
MaxPixels    == 1000000     \* utils.py 21, the default of max_pixels
MaxUploadMB  == 200         \* app.py 204

\* the files a user may upload: name, decoded size, size on disk in MB
Files ==
    { [name |-> "thumb",  width |-> 100,     height |-> 100,  mb |-> 1],
      [name |-> "square", width |-> 500,     height |-> 500,  mb |-> 1],
      [name |-> "mid",    width |-> 700,     height |-> 700,  mb |-> 1],
      [name |-> "photo",  width |-> 4000,    height |-> 3000, mb |-> 9],
      [name |-> "strip",  width |-> 646,     height |-> 2584, mb |-> 2],
      [name |-> "line",   width |-> 1000001, height |-> 1,    mb |-> 1],
      [name |-> "huge",   width |-> 100,     height |-> 100,  mb |-> 250] }

\* Image.open(uploaded_file), app.py 200
open_upload(file) ==
    [width |-> file.width, height |-> file.height, mode |-> "RGB", edits |-> << >>]

ScaleFactors  == {2, 3}                 \* app.py 100-105
OutputFormats == {"PNG", "JPEG"}        \* app.py 136-141

\* sharpness, contrast, brightness, color_balance as set on the sliders
TuneChoices ==
    { <<10, 10, 10, 10>>, <<15, 5, 10, 10>>, <<10, 10, 12, 8>> }

Lower(fmt) == IF fmt = "PNG" THEN "png" ELSE IF fmt = "JPEG" THEN "jpeg" ELSE fmt
Upper(fmt) == IF fmt = "png" THEN "PNG" ELSE IF fmt = "jpeg" THEN "JPEG" ELSE fmt

\* the dictionary of app.py 219-229; face_enhance and denoise_level are left
\* at the defaults of their widgets, jpeg_quality at the default of its slider
make_advanced_params(fmt, tune) ==
    [face_enhance  |-> TRUE,
     denoise_level |-> 1,
     output_format |-> Lower(fmt),
     jpeg_quality  |-> IF fmt = "JPEG" THEN 95 ELSE 0,
     sharpness     |-> tune[1],
     contrast      |-> tune[2],
     brightness    |-> tune[3],
     color_balance |-> tune[4]]

\* what client.run may return: an object with or without attribute url, a
\* list (possibly of a subclass carrying url) of len elements, or a str
OutputShapes ==
    { [has_url |-> TRUE,  kind |-> "object", len |-> 0],
      [has_url |-> FALSE, kind |-> "object", len |-> 0],
      [has_url |-> FALSE, kind |-> "list",   len |-> 1],
      [has_url |-> FALSE, kind |-> "list",   len |-> 0],
      [has_url |-> TRUE,  kind |-> "list",   len |-> 1],
      [has_url |-> FALSE, kind |-> "str",    len |-> 0] }

NoUrl == "no_url"

\* line 150 without the length test
ListAcceptedEmpty(out) == out.kind = "list"

\* the if/elif chain of utils.py 148-156
ListAccepted(out) == out.kind = "list" /\ out.len > 0

url_of(out) ==
    IF out.has_url THEN "attr"
    ELSE IF ListAccepted(out) THEN "first"
    ELSE IF out.kind = "str" THEN "self"
    ELSE NoUrl

\* the check of line 113 without the scale factor
too_large_unscaled(img, scale) ==
    img.width * img.height > PixelCeiling

\* the condition of utils.py 113
too_large(img, scale) ==
    img.width * img.height * scale * scale > PixelCeiling

\* utils.py 167-174
jpeg_encode(img, quality) ==
    [img EXCEPT !.mode = "RGB", !.edits = Append(@, <<"jpeg", quality>>)]

Uncaught == "uncaught"

\* process_image without the outer try of lines 97 and 187-189
CatchAtInner(site, exc) ==
    IF site = "resize" THEN "resize_error"
    ELSE IF site = "response" THEN "response_error"
    ELSE IF exc = "ReplicateError" THEN "api_error"
    ELSE Uncaught

\* the except clauses of process_image that an exception of class exc raised
\* at site meets: 106 for the resize, 183 then 187 for lines 122-145, 179
\* for lines 148-177
CatchAt(site, exc) ==
    IF site = "resize" THEN "resize_error"
    ELSE IF site = "response" THEN "response_error"
    ELSE IF exc = "ReplicateError" THEN "api_error"
    ELSE "general_error"

Exceptions == {"ReplicateError", "Exception"}

(***************************************************************************)
(* The session: every action below that starts with pc = "idle" is one     *)
(* run of main() (app.py 35-304) caused by one user interaction.           *)
(***************************************************************************)
IdleLocals ==
    /\ image = None /\ scale_factor = 0 /\ advanced_params = None
    /\ client = None /\ output = None /\ image_url = NoUrl
    /\ result_image = None /\ processed_image = None /\ messages = << >>
    /\ remote_calls = 0 /\ downloads = 0 /\ stages = << >> /\ failed = << >>
    /\ escaped = FALSE

IdleHarness ==
    /\ rz = [width |-> 1, height |-> 1, max_pixels |-> 1, fp_w |-> FALSE,
             fp_h |-> FALSE, done |-> FALSE, result |-> None]
    /\ ft = [image |-> None, params |-> None, fail_at |-> NoFailure,
             done |-> FALSE, result |-> None]

Init ==
    /\ env \in [APP_ACCESS_TOKEN : {Unset, SecretA}, REPLICATE_API_TOKEN : ApiTokens]
    /\ model_cache = Uncached
    /\ temp_file = FALSE
    /\ access_token = Unset
    /\ history = << >>          \* initialize_session_state, app.py 30-33
    /\ uploaded_file = None
    /\ pc = "idle"
    /\ IdleLocals
    /\ IdleHarness

\* app.py 46: the gate as a run without a click on "Verificar acceso" sees it
GateOpen == check_token(access_token, env, FALSE, Unset).ok

\* app.py 67-82: the status panel calls load_model when the credential is set
sidebar_cache(cache, environ, client_ok) ==
    IF environ.REPLICATE_API_TOKEN = Unset THEN cache
    ELSE Some(load_model(cache, environ, client_ok))

\* os.environ changes between two runs.  Nothing in the program writes it;
\* it is written by whoever hosts main and process_image in the process (a
\* secrets reload, a test that removes the credential), and the program
\* reads it afresh at app.py 11 and 67 and at utils.py 41
SetEnv ==
    /\ pc = "idle"
    /\ \/ \E v \in AppSecrets : env' = [env EXCEPT !.APP_ACCESS_TOKEN = v]
       \/ \E v \in ApiTokens : env' = [env EXCEPT !.REPLICATE_API_TOKEN = v]
    /\ env' # env
    /\ UNCHANGED <<model_cache, temp_file, session, pc, locals, harness>>

\* the user fills the password field and presses "Verificar acceso"
VerifyClick ==
    /\ pc = "idle"
    /\ env.APP_ACCESS_TOKEN # Unset
    /\ access_token = Unset
    /\ \E token_input \in TokenInputs, client_ok \in BOOLEAN :
         LET gate == check_token(access_token, env, TRUE, token_input)
         IN  /\ access_token' = gate.access_token
             /\ model_cache' = IF gate.ok
                               THEN sidebar_cache(model_cache, env, client_ok)
                               ELSE model_cache
    /\ UNCHANGED <<env, temp_file, history, uploaded_file, pc, locals, harness>>

\* any interaction that presses no button: moving a slider, opening the
\* history tab (app.py 267-286 only reads the history)
ViewHistory ==
    /\ pc = "idle"
    /\ GateOpen
    /\ \E client_ok \in BOOLEAN :
         model_cache' = sidebar_cache(model_cache, env, client_ok)
    /\ UNCHANGED <<env, temp_file, session, pc, locals, harness>>

\* "Cerrar sesión", app.py 85-87; the rerun it asks for stops at the gate,
\* where the uploader is no longer drawn and its file is dropped
Logout ==
    /\ pc = "idle"
    /\ GateOpen
    /\ \E client_ok \in BOOLEAN :
         model_cache' = sidebar_cache(model_cache, env, client_ok)
    /\ access_token' = Unset
    /\ uploaded_file' = None
    /\ UNCHANGED <<env, temp_file, history, pc, locals, harness>>

\* app.py 91-95
Upload ==
    /\ pc = "idle"
    /\ GateOpen
    /\ \E client_ok \in BOOLEAN :
         model_cache' = sidebar_cache(model_cache, env, client_ok)
    /\ \E file \in Files : uploaded_file' = Some(file)
    /\ UNCHANGED <<env, temp_file, access_token, history, pc, locals, harness>>

\* "Procesar Imagen", app.py 197-231, up to the call of process_image
ProcessClick ==
    /\ pc = "idle"
    /\ GateOpen
    /\ uploaded_file # None
    /\ Val(uploaded_file).mb <= MaxUploadMB
    /\ Len(history) < MaxHistory
    /\ \E client_ok \in BOOLEAN :
         model_cache' = sidebar_cache(model_cache, env, client_ok)
    /\ \E scale \in ScaleFactors, fmt \in OutputFormats, tune \in TuneChoices :
         /\ scale_factor' = scale
         /\ advanced_params' = Some(make_advanced_params(fmt, tune))
    /\ image' = Some(open_upload(Val(uploaded_file)))
    /\ stages' = <<"gate">>
    /\ pc' = "load_model"
    /\ UNCHANGED <<env, temp_file, session, client, output, image_url,
                   result_image, processed_image, messages, remote_calls,
                   downloads, failed, escaped, harness>>

(***************************************************************************)
(* process_image (utils.py 93-189), statement by statement.                *)
(***************************************************************************)
\* st.error(...) ; return None
ReturnNone(msg) ==
    /\ messages' = Append(messages, msg)
    /\ processed_image' = None
    /\ pc' = "returned"

\* an exception of class exc raised by stage at site: the handler found by
\* CatchAt reports it and returns None; without a handler it leaves
\* process_image and ends the run of main
RaiseAt(site, exc, stage) ==
    /\ failed' = Append(failed, stage)
    /\ IF CatchAt(site, exc) = Uncaught
       THEN /\ escaped' = TRUE
            /\ pc' = "done"
            /\ UNCHANGED <<messages, processed_image>>
       ELSE /\ escaped' = escaped
            /\ ReturnNone(CatchAt(site, exc))

\* utils.py 98-101
P_LoadModel ==
    /\ pc = "load_model"
    /\ \E client_ok \in BOOLEAN :
         LET loaded == load_model(model_cache, env, client_ok)
         IN  /\ model_cache' = Some(loaded)
             /\ client' = loaded.value
             /\ IF loaded.value = None
                THEN ReturnNone("client_unavailable")
                ELSE /\ pc' = "resize"
                     /\ UNCHANGED <<messages, processed_image>>
    /\ UNCHANGED <<env, temp_file, session, image, scale_factor, advanced_params,
                   output, image_url, result_image, remote_calls, downloads,
                   stages, failed, escaped, harness>>

\* utils.py 104-108
P_Resize ==
    /\ pc = "resize"
    /\ stages' = Append(stages, "resize")
    /\ \E fp_w \in BOOLEAN, fp_h \in BOOLEAN :
         LET resized == resize_if_needed(Val(image), MaxPixels, fp_w, fp_h)
         IN  IF resized = Raise
             THEN /\ RaiseAt("resize", "Exception", "resize")
                  /\ image' = image
             ELSE /\ image' = resized
                  /\ pc' = "pixel_check"
                  /\ UNCHANGED <<messages, processed_image, failed, escaped>>
    /\ UNCHANGED <<process, session, scale_factor, advanced_params, client,
                   output, image_url, result_image, remote_calls, downloads,
                   harness>>

\* utils.py 111-119
P_PixelCheck ==
    /\ pc = "pixel_check"
    /\ stages' = Append(stages, "pixel_check")
    /\ IF too_large(Val(image), scale_factor)
       THEN ReturnNone("too_large")
       ELSE /\ pc' = "save_temp"
            /\ UNCHANGED <<messages, processed_image>>
    /\ UNCHANGED <<process, session, image, scale_factor, advanced_params,
                   client, output, image_url, result_image, remote_calls,
                   downloads, failed, escaped, harness>>

\* utils.py 122-130: image.save(temp_path); a failed write may leave the file
P_SaveTemp ==
    /\ pc = "save_temp"
    /\ stages' = Append(stages, "remote_call")
    /\ \/ /\ temp_file' = TRUE
          /\ pc' = "remote_call"
          /\ UNCHANGED <<messages, processed_image, failed, escaped>>
       \/ /\ \E left \in BOOLEAN : temp_file' = (temp_file \/ left)
          /\ RaiseAt("request", "Exception", "remote_call")
    /\ UNCHANGED <<env, model_cache, session, image, scale_factor,
                   advanced_params, client, output, image_url, result_image,
                   remote_calls, downloads, harness>>

\* lines 143-145, reached only when client.run returned
remove_temp(exists) == FALSE

\* utils.py 134-145: client.run and, when it returns, the removal of the file
P_RemoteCall ==
    /\ pc = "remote_call"
    /\ remote_calls' = remote_calls + 1
    /\ \/ /\ \E out \in OutputShapes : output' = Some(out)
          /\ temp_file' = remove_temp(temp_file)
          /\ pc' = "parse_output"
          /\ UNCHANGED <<messages, processed_image, failed, escaped>>
       \/ /\ \E exc \in Exceptions : RaiseAt("request", exc, "remote_call")
          /\ UNCHANGED <<output, temp_file>>
    /\ UNCHANGED <<env, model_cache, session, image, scale_factor,
                   advanced_params, client, image_url, result_image, downloads,
                   stages, harness>>

\* utils.py 148-156
P_ParseOutput ==
    /\ pc = "parse_output"
    /\ image_url' = url_of(Val(output))
    /\ IF url_of(Val(output)) = NoUrl
       THEN ReturnNone("unexpected_format")
       ELSE /\ pc' = "download"
            /\ UNCHANGED <<messages, processed_image>>
    /\ UNCHANGED <<process, session, image, scale_factor, advanced_params,
                   client, output, result_image, remote_calls, downloads,
                   stages, failed, escaped, harness>>

\* utils.py 158-160: urlopen(image_url) and Image.open(response); the remote
\* model returns the image it was sent, enlarged, in a mode of its choosing
P_Download ==
    /\ pc = "download"
    /\ stages' = Append(stages, "download")
    /\ downloads' = downloads + 1
    /\ \/ /\ \E mode \in {"RGB", "RGBA"} :
               result_image' = Some([width  |-> Val(image).width * scale_factor,
                                     height |-> Val(image).height * scale_factor,
                                     mode   |-> mode,
                                     edits  |-> << >>])
          /\ pc' = "fine_tune"
          /\ UNCHANGED <<messages, processed_image, failed, escaped>>
       \/ /\ RaiseAt("response", "Exception", "download")
          /\ UNCHANGED result_image
    /\ UNCHANGED <<process, session, image, scale_factor, advanced_params,
                   client, output, image_url, remote_calls, harness>>

\* utils.py 162-163; the dictionary built by main is never empty
P_FineTune ==
    /\ pc = "fine_tune"
    /\ stages' = Append(stages, "fine_tuning")
    /\ \E fail_at \in {NoFailure} \cup {TuneSteps[i] : i \in 1..Len(TuneSteps)} :
         LET tuned == apply_fine_tuning(Val(result_image), Val(advanced_params), fail_at)
         IN  /\ result_image' = Some(tuned.image)
             /\ messages' = IF tuned.error
                            THEN Append(messages, "fine_tuning_error") ELSE messages
             /\ failed' = IF tuned.error
                          THEN Append(failed, "fine_tuning") ELSE failed
    /\ pc' = "encode"
    /\ UNCHANGED <<process, session, image, scale_factor, advanced_params,
                   client, output, image_url, processed_image, remote_calls,
                   downloads, escaped, harness>>

\* the re-encoding applied whatever the format
wants_jpeg_always(params) == TRUE

\* utils.py 165-167
wants_jpeg(params) == Upper(params.output_format) = "JPEG"

\* utils.py 165-177
P_Encode ==
    /\ pc = "encode"
    /\ IF wants_jpeg(Val(advanced_params))
       THEN /\ stages' = Append(stages, "encode")
            /\ \/ /\ result_image' = Some(jpeg_encode(Val(result_image),
                                              Val(advanced_params).jpeg_quality))
                  /\ processed_image' = result_image'
                  /\ messages' = Append(messages, "success")
                  /\ pc' = "returned"
                  /\ UNCHANGED <<failed, escaped>>
               \/ /\ RaiseAt("response", "Exception", "encode")
                  /\ UNCHANGED result_image
       ELSE /\ processed_image' = result_image
            /\ messages' = Append(messages, "success")
            /\ pc' = "returned"
            /\ UNCHANGED <<stages, result_image, failed, escaped>>
    /\ UNCHANGED <<process, session, image, scale_factor, advanced_params,
                   client, output, image_url, remote_calls, downloads, harness>>

\* the dictionary of app.py 248-263, reduced to the file name and the scale
\* factor: the timestamp, the two images and the other parameters are stored
\* beside them and read by nothing but the history tab
history_entry(file, scale, params) ==
    [original_name |-> file.name,
     scale_factor  |-> scale]

\* insert(0, ...) in place of append
history_prepend(entries, entry) == <<entry>> \o entries

\* app.py 264
history_append(entries, entry) == Append(entries, entry)

\* app.py 233-264: the result is shown and the history grows
M_Display ==
    /\ pc = "returned"
    /\ IF processed_image # None
       THEN /\ stages' = stages \o <<"display", "history">>
            /\ history' = history_append(history,
                              history_entry(Val(uploaded_file), scale_factor,
                                            Val(advanced_params)))
       ELSE UNCHANGED <<stages, history>>
    /\ pc' = "done"
    /\ UNCHANGED <<process, access_token, uploaded_file, image, scale_factor,
                   advanced_params, client, output, image_url, result_image,
                   processed_image, messages, remote_calls, downloads, failed,
                   escaped, harness>>

\* the run is over; its locals are gone
M_Finish ==
    /\ pc = "done"
    /\ pc' = "idle"
    /\ image' = None /\ scale_factor' = 0 /\ advanced_params' = None
    /\ client' = None /\ output' = None /\ image_url' = NoUrl
    /\ result_image' = None /\ processed_image' = None /\ messages' = << >>
    /\ remote_calls' = 0 /\ downloads' = 0 /\ stages' = << >> /\ failed' = << >>
    /\ escaped' = FALSE
    /\ UNCHANGED <<process, session, harness>>

Next ==
    \/ SetEnv \/ VerifyClick \/ ViewHistory \/ Logout \/ Upload \/ ProcessClick
    \/ P_LoadModel \/ P_Resize \/ P_PixelCheck \/ P_SaveTemp \/ P_RemoteCall
    \/ P_ParseOutput \/ P_Download \/ P_FineTune \/ P_Encode
    \/ M_Display \/ M_Finish

Spec == Init /\ [][Next]_vars

(***************************************************************************)
(* resize_if_needed on its own: every image up to MaxSide x MaxSide        *)
(* against small ceilings, and the uploads against the ceiling of the      *)
(* application.                                                            *)
(***************************************************************************)
SmallCeilings == {4, 9}

RzInputs ==
    { [width |-> w, height |-> h, max_pixels |-> m] :
          w \in 1..MaxSide, h \in 1..MaxSide, m \in SmallCeilings }
    \cup { [width |-> f.width, height |-> f.height, max_pixels |-> MaxPixels] :
          f \in Files }

Quiet ==
    /\ env = [APP_ACCESS_TOKEN |-> Unset, REPLICATE_API_TOKEN |-> Unset]
    /\ model_cache = Uncached
    /\ temp_file = FALSE
    /\ access_token = Unset
    /\ history = << >>
    /\ uploaded_file = None
    /\ pc = "idle"
    /\ IdleLocals

RzInit ==
    /\ Quiet
    /\ \E in \in RzInputs, fp_w \in BOOLEAN, fp_h \in BOOLEAN :
         rz = [width |-> in.width, height |-> in.height,
               max_pixels |-> in.max_pixels, fp_w |-> fp_w, fp_h |-> fp_h,
               done |-> FALSE, result |-> None]
    /\ ft = [image |-> None, params |-> None, fail_at |-> NoFailure,
             done |-> FALSE, result |-> None]

RzImage == [width |-> rz.width, height |-> rz.height, mode |-> "RGB", edits |-> << >>]

RzApply ==
    /\ ~rz.done
    /\ rz' = [rz EXCEPT !.done = TRUE,
                        !.result = resize_if_needed(RzImage, rz.max_pixels,
                                                    rz.fp_w, rz.fp_h)]
    /\ UNCHANGED <<process, session, pc, locals, ft>>

RzNext == RzApply

ResizeSpec == RzInit /\ [][RzNext]_vars

(***************************************************************************)
(* apply_fine_tuning on its own: both kinds of mode, every combination of  *)
(* three slider positions, every step that can raise.                      *)
(***************************************************************************)
Factors == {5, 10, 15}

FtInit ==
    /\ Quiet
    /\ rz = [width |-> 1, height |-> 1, max_pixels |-> 1, fp_w |-> FALSE,
             fp_h |-> FALSE, done |-> FALSE, result |-> None]
    /\ \E mode \in {"RGB", "RGBA"}, tune \in Factors \X Factors \X Factors \X Factors,
          fail_at \in {NoFailure} \cup {TuneSteps[i] : i \in 1..Len(TuneSteps)} :
         ft = [image   |-> Some([width |-> 200, height |-> 200, mode |-> mode,
                                 edits |-> << >>]),
               params  |-> Some(make_advanced_params("PNG", tune)),
               fail_at |-> fail_at,
               done    |-> FALSE,
               result  |-> None]

FtApply ==
    /\ ~ft.done
    /\ ft' = [ft EXCEPT !.done = TRUE,
                        !.result = Some(apply_fine_tuning(Val(ft.image),
                                                          Val(ft.params),
                                                          ft.fail_at))]
    /\ UNCHANGED <<process, session, pc, locals, rz>>

FtNext == FtApply

TuneSpec == FtInit /\ [][FtNext]_vars

(***************************************************************************)
(* Properties.                                                             *)
(***************************************************************************)
Last(seq) == seq[Len(seq)]
Has(seq, x) == \E i \in 1..Len(seq) : seq[i] = x
IsPrefix(s, t) == Len(s) <= Len(t) /\ SubSeq(t, 1, Len(s)) = s

\* process_image has returned to main
Finished == pc \in {"returned", "done"}

\* width * height * scale_factor^2 of the image process_image holds
PixelProduct ==
    Val(image).width * Val(image).height * scale_factor * scale_factor

\* C1: client.run is issued only when width * height * scale_factor^2 of the
\* (possibly resized) image is at most 1,000,000; when the product exceeds
\* the ceiling, process_image returns None and the remote service is not
\* contacted in that run.
C1_RemoteCallWithinCeiling ==
    image # None =>
        /\ remote_calls > 0 => PixelProduct <= 1000000
        /\ (Finished /\ PixelProduct > 1000000) =>
               /\ processed_image = None
               /\ remote_calls = 0
               /\ downloads = 0

\* a 4000 x 3000 upload was resized to 1154 x 866 and rejected at the check
C1_Witness ==
    /\ pc = "returned"
    /\ Val(image).width = 1154 /\ Val(image).height = 866
    /\ Has(messages, "too_large")
    /\ processed_image = None
    /\ remote_calls = 0

\* C2: process_image runs only while APP_ACCESS_TOKEN is configured and the
\* token stored in the session equals it; after a logout (the stored token
\* is empty) no processing runs until a correct token is verified again.
C2_ProcessingBehindGate ==
    pc # "idle" =>
        /\ env.APP_ACCESS_TOKEN # Unset
        /\ access_token = env.APP_ACCESS_TOKEN

\* process_image is entered by a session that holds the secret
C2_Witness ==
    /\ pc = "load_model"
    /\ access_token = SecretA
    /\ env.APP_ACCESS_TOKEN = SecretA

\* REPLICATE_API_TOKEN is set and starts with the prefix
ValidCredential ==
    /\ env.REPLICATE_API_TOKEN # Unset
    /\ StartsWith(env.REPLICATE_API_TOKEN, ApiPrefix)

\* C3: when REPLICATE_API_TOKEN is absent or lacks the prefix at the time
\* process_image is called, process_image returns None with a
\* configuration error and makes no network call, whatever calls of
\* load_model came before.
C3_NoCallWithoutCredential ==
    (pc # "idle" /\ ~ValidCredential) =>
        /\ remote_calls = 0
        /\ downloads = 0
        /\ Finished => (processed_image = None /\ Has(messages, "client_unavailable"))

ErrorMessages ==
    {"client_unavailable", "resize_error", "api_error", "general_error",
     "response_error", "unexpected_format"}

\* one of the failures the claim lists has happened in this run
ListedFailure ==
    \/ client = None
    \/ \E i \in 1..Len(failed) :
           failed[i] \in {"resize", "remote_call", "download", "encode"}
    \/ (output # None /\ image_url = NoUrl)

\* C4: every failure inside process_image (client not available, resize
\* failure, remote authentication or transport failure, unexpected response
\* shape, download or decode failure, re-encode failure) ends with
\* process_image returning None and reporting an error; no exception leaves
\* process_image.
C4_FailuresReturnNone ==
    /\ ~escaped
    /\ (Finished /\ ListedFailure) =>
           /\ processed_image = None
           /\ messages # << >>
           /\ Last(messages) \in ErrorMessages

\* client.run raised something other than ReplicateError (a transport
\* failure), which only the outer handler catches
C4_Witness ==
    /\ pc = "returned"
    /\ failed = <<"remote_call">>
    /\ remote_calls = 1
    /\ Last(messages) = "general_error"
    /\ processed_image = None

\* C5: the history changes only by one entry appended at its end, and only
\* after process_image returned a result; every other step leaves it as it
\* was.
C5_HistoryAppendOnly ==
    [][ \/ history' = history
        \/ /\ pc = "returned"
           /\ processed_image # None
           /\ Len(history') = Len(history) + 1
           /\ SubSeq(history', 1, Len(history)) = history ]_vars

\* a second entry has been appended behind a different first one
C5_Witness ==
    /\ pc = "done"
    /\ processed_image # None
    /\ Len(history) = 2
    /\ history[1] # history[2]

\* C6: when a step of apply_fine_tuning fails, the function returns the
\* image it was given, without the conversion or adjustments made before
\* the failure.
C6_FailureReturnsInput ==
    (ft.done /\ Val(ft.result).error) => Val(ft.result).image = Val(ft.image)

\* C7: the temporary file written before the remote call is gone when
\* process_image returns, on every path.
C7_TempFileDeleted ==
    (Finished /\ remote_calls > 0) => ~temp_file

\* the image handed to resize_if_needed exceeds its ceiling
RzOver == rz.width * rz.height > rz.max_pixels

\* |new - dim * ratio| < 1, the ratio being sqrt(max_pixels / (dim * other))
WithinLessThanOne(new, dim, other, max_pixels) ==
    /\ ~Leq3(new + 1, new + 1, other, dim, max_pixels)
    /\ (new = 0 \/ ~Geq3(new - 1, new - 1, other, dim, max_pixels))

\* dim * ratio - 1 <= new <= dim * ratio
AtMostOneBelow(new, dim, other, max_pixels) ==
    /\ Leq3(new, new, other, dim, max_pixels)
    /\ Geq3(new + 1, new + 1, other, dim, max_pixels)

\* dim * ratio <= 1
TargetAtMostOne(dim, other, max_pixels) == Geq3(1, 1, other, dim, max_pixels)

\* C8: for every image above the ceiling resize_if_needed returns
\* an image of at most max_pixels pixels, each side of which differs by
\* less than one pixel from the original side times sqrt(ceiling / pixels).
C8_ResizeWithinLessThanOne ==
    (rz.done /\ RzOver) =>
        /\ rz.result # Raise
        /\ Val(rz.result).width * Val(rz.result).height <= rz.max_pixels
        /\ WithinLessThanOne(Val(rz.result).width, rz.width, rz.height, rz.max_pixels)
        /\ WithinLessThanOne(Val(rz.result).height, rz.height, rz.width, rz.max_pixels)

\* what resize_if_needed does guarantee above the ceiling: it returns an
\* image of at most max_pixels pixels, each side not above and at most one
\* pixel below the original side times sqrt(ceiling / pixels), or it raises,
\* and raises only when that product is at most 1 for one of the sides
ResizeWithinOne ==
    (rz.done /\ RzOver) =>
        IF rz.result = Raise
        THEN \/ TargetAtMostOne(rz.width, rz.height, rz.max_pixels)
             \/ TargetAtMostOne(rz.height, rz.width, rz.max_pixels)
        ELSE /\ Val(rz.result).width >= 1
             /\ Val(rz.result).height >= 1
             /\ Val(rz.result).width * Val(rz.result).height <= rz.max_pixels
             /\ AtMostOneBelow(Val(rz.result).width, rz.width, rz.height, rz.max_pixels)
             /\ AtMostOneBelow(Val(rz.result).height, rz.height, rz.width, rz.max_pixels)

\* the URL the claim expects for a result of the given shape
ExpectedUrl(out) ==
    IF out.has_url THEN "attr"
    ELSE IF out.kind = "list" /\ out.len >= 1 THEN "first"
    ELSE IF out.kind = "str" THEN "self"
    ELSE NoUrl

\* C9: the remote result is accepted as an object with a url attribute, a
\* non-empty list (first element) or a string, tried in that order; any
\* other shape, the empty list included, gives an unexpected-response
\* error, None, and no download.
C9_ThreeShapes ==
    (output # None /\ pc # "parse_output") =>
        /\ image_url = ExpectedUrl(Val(output))
        /\ downloads > 0 => image_url # NoUrl
        /\ image_url = NoUrl =>
               /\ Finished
               /\ downloads = 0
               /\ processed_image = None
               /\ Last(messages) = "unexpected_format"

\* client.run returned an empty list
C9_Witness ==
    /\ pc = "returned"
    /\ output = Some([has_url |-> FALSE, kind |-> "list", len |-> 0])
    /\ Last(messages) = "unexpected_format"
    /\ downloads = 0

\* the stages of a successful run, as the claim lists them
Canon(params) ==
    <<"gate", "resize", "pixel_check", "remote_call", "download", "fine_tuning">>
    \o (IF params.output_format = "jpeg" THEN <<"encode">> ELSE << >>)
    \o <<"display", "history">>

\* the stages run in the fixed order, each at most once, all of them in a
\* successful run, and the image sent to the service carries no edit
StagesInOrder ==
    pc # "idle" =>
        /\ IsPrefix(stages, Canon(Val(advanced_params)))
        /\ (pc = "done" /\ processed_image # None) =>
               stages = Canon(Val(advanced_params))
        /\ Val(image).edits = << >>
        /\ Has(stages, "fine_tuning") =>
               /\ result_image # None
               /\ Val(result_image).width = Val(image).width * scale_factor

\* a rejection stops the run where it is made
RejectionStops ==
    /\ Has(messages, "client_unavailable") => stages = <<"gate">>
    /\ Has(messages, "too_large") => Last(stages) = "pixel_check"
    /\ Has(messages, "unexpected_format") => Last(stages) = "remote_call"

\* no stage runs after a failed stage that is not among exempt
FailureStops(exempt) ==
    \A i \in 1..Len(failed) :
        failed[i] \notin exempt => Last(stages) = failed[i]

\* C10 as stated: the stages of a run happen in the fixed order, each at
\* most once, and no later stage runs when an earlier stage failed; the
\* fine-tuning chain is applied to the remote result.
C10_NoStageAfterFailure ==
    /\ StagesInOrder
    /\ RejectionStops
    /\ FailureStops({})

\* C10 as amended: the same, except that a failure inside the fine-tuning
\* chain does not stop the run: the encoding, the display and the history
\* append still follow it.
C10_StagesInOrder ==
    /\ StagesInOrder
    /\ RejectionStops
    /\ FailureStops({"fine_tuning"})

\* a JPEG run whose fine-tuning failed went through every stage
C10_Witness ==
    /\ pc = "done"
    /\ failed = <<"fine_tuning">>
    /\ processed_image # None
    /\ Len(stages) = 9
    /\ Last(stages) = "history"

(***************************************************************************)
(* The pixel budget of process_image on its own: runs of process_image     *)
(* (utils.py 93-189) and of the lines of main that follow it, started      *)
(* where "Procesar Imagen" has just been pressed by a verified session     *)
(* with a working credential, for uploads from one pixel wide to two       *)
(* million pixels wide, on both sides of every threshold.                  *)
(***************************************************************************)
BudgetSides ==
    {1, 2, 3, 333, 334, 500, 501, 646, 1000, 1001, 2584, 3000, 4000,
     250000, 500001, 1000001, 2000000}

BudgetFiles ==
    { [name |-> "probe", width |-> w, height |-> h, mb |-> 1] :
          <<w, h>> \in { p \in BudgetSides \X BudgetSides :
                            p[1] <= MaxProbePixels \div p[2] } }

BudgetInit ==
    /\ env = [APP_ACCESS_TOKEN |-> SecretA, REPLICATE_API_TOKEN |-> R8Token]
    /\ model_cache = Some(load_model_body(env, TRUE))
    /\ temp_file = FALSE
    /\ access_token = SecretA
    /\ history = << >>
    /\ \E file \in BudgetFiles :
         /\ uploaded_file = Some(file)
         /\ image = Some(open_upload(file))
    /\ scale_factor \in ScaleFactors
    /\ \E fmt \in OutputFormats :
         advanced_params = Some(make_advanced_params(fmt, <<15, 5, 10, 10>>))
    /\ pc = "load_model"
    /\ stages = <<"gate">>
    /\ client = None /\ output = None /\ image_url = NoUrl
    /\ result_image = None /\ processed_image = None /\ messages = << >>
    /\ remote_calls = 0 /\ downloads = 0 /\ failed = << >>
    /\ escaped = FALSE
    /\ IdleHarness

BudgetNext ==
    \/ P_LoadModel \/ P_Resize \/ P_PixelCheck \/ P_SaveTemp \/ P_RemoteCall
    \/ P_ParseOutput \/ P_Download \/ P_FineTune \/ P_Encode
    \/ M_Display \/ M_Finish

BudgetSpec == BudgetInit /\ [][BudgetNext]_vars

\* the pixel count of the uploaded image
UploadPixels == Val(uploaded_file).width * Val(uploaded_file).height

\* C11: an image of more than 1,000,000 pixels whose resized sides are both
\* at least 1 still exceeds 1,000,000 once multiplied by scale_factor^2, for
\* scale factors 2 and 3, so process_image rejects it and issues no remote
\* call; only images of at most 250,000 pixels (scale 2) or at most 111,111
\* pixels (scale 3) reach the remote service.
C11_ResizePathNeverSucceeds ==
    pc # "idle" =>
        /\ (UploadPixels > 1000000 /\ Has(stages, "resize") /\ failed = << >>) =>
               /\ Val(image).width >= 1
               /\ Val(image).height >= 1
               /\ \A s \in {2, 3} :
                      Val(image).width * Val(image).height * s * s > 1000000
        /\ UploadPixels > 1000000 =>
               /\ remote_calls = 0
               /\ downloads = 0
               /\ ~Has(stages, "remote_call")
               /\ Finished => processed_image = None
        /\ remote_calls > 0 =>
               /\ scale_factor = 2 => UploadPixels <= 250000
               /\ scale_factor = 3 => UploadPixels <= 111111

\* a 500001 x 2 upload was resized to 500000 x 1 and rejected at the check
C11_Witness ==
    /\ pc = "returned"
    /\ Val(uploaded_file).width = 500001 /\ Val(uploaded_file).height = 2
    /\ Val(image).width = 500000 /\ Val(image).height = 1
    /\ Last(messages) = "too_large"
    /\ remote_calls = 0

====
